---------------------------- MODULE Spec2Model ----------------------------
(***************************************************************************)
(* Model of the collectd "apk" plugin (src/apk.c): the periodic read       *)
(* callback apk_upgradable_read together with the helpers it calls         *)
(* (apk_change_to_json, read_os_release, parse_enclosed_word,              *)
(* dispatch_gauge).  libapk, json-c and collectd are external: a call into *)
(* them is a step whose outcome (success or failure, the changeset, the    *)
(* content of /etc/os-release) is chosen nondeterministically.             *)
(***************************************************************************)
EXTENDS Integers, Sequences, FiniteSets, TLC

(***************************************************************************)
(* Bounds of the model and constants of the program.                       *)
(***************************************************************************)
\* longest changeset the solver hands back in the model
MaxChanges == 2

\* sizeof(os.id), sizeof(os.version_id)
OsFieldSize == 64
\* sizeof(line) in read_os_release
LineSize == 128
\* field width of the key conversion in the sscanf format
KeyWidth == 15

\* the terminating byte of a C string
NUL == ""
\* a null pointer
NULL == "NULL"

(***************************************************************************)
(* Small helpers on sequences.                                             *)
(***************************************************************************)
Min(a, b) == IF a < b THEN a ELSE b

Take(s, n) == SubSeq(s, 1, Min(n, Len(s)))

Drop(s, n) == SubSeq(s, n + 1, Len(s))

Rep(c, n) == [i \in 1..n |-> c]

\* number of entries of s equal to x
RECURSIVE CountOf(_, _)
CountOf(s, x) ==
    IF s = <<>> THEN 0
    ELSE (IF s[1] = x THEN 1 ELSE 0) + CountOf(Tail(s), x)

\* index of the first entry equal to x, 0 when there is none
RECURSIVE IndexOf(_, _, _)
IndexOf(s, x, from) ==
    IF from > Len(s) THEN 0
    ELSE IF s[from] = x THEN from
    ELSE IndexOf(s, x, from + 1)

(***************************************************************************)
(* Package descriptors (struct apk_package).  A descriptor is identified   *)
(* by its address; two descriptors at different addresses may carry the    *)
(* same version.                                                           *)
(***************************************************************************)
Packages == {"pkg1", "pkg2", "pkg3"}

\* pkg1 and pkg2 are two builds of the same version of one package
pkg_name(p) ==
    CASE p = "pkg1" -> "curl"
      [] p = "pkg2" -> "curl"
      [] p = "pkg3" -> "libcurl"

pkg_origin(p) ==
    CASE p = "pkg1" -> "curl"
      [] p = "pkg2" -> "curl"
      [] p = "pkg3" -> "curl-ng"

pkg_version(p) ==
    CASE p = "pkg1" -> "8.0.0-r0"
      [] p = "pkg2" -> "8.0.0-r0"
      [] p = "pkg3" -> "8.1.0-r0"

\* struct apk_change: either side may be a null pointer
Changes == [old_pkg : Packages \cup {NULL}, new_pkg : Packages \cup {NULL}]

RECURSIVE SeqsUpTo(_, _)
SeqsUpTo(S, n) ==
    IF n = 0 THEN {<<>>}
    ELSE LET shorter == SeqsUpTo(S, n - 1)
         IN  shorter \cup {Append(s, x) : s \in {t \in shorter : Len(t) = n - 1}, x \in S}

\* what apk_solver_solve may put into changeset.changes
Changesets == SeqsUpTo(Changes, MaxChanges)


(***************************************************************************)
(* /etc/os-release.  A text is a sequence of one-character strings; a C    *)
(* string held in a buffer ends before the first NUL.                      *)
(***************************************************************************)
\* the scanset [A-Za-z0-9_] of the sscanf format
KeyChars ==
    {"A", "B", "C", "D", "E", "F", "G", "H", "I", "J", "K", "L", "M", "N", "O", "P", "Q", "R", "S", "T", "U", "V", "W", "X", "Y", "Z"}
    \cup {"a", "b", "c", "d", "e", "f", "g", "h", "i", "j", "k", "l", "m", "n", "o", "p", "q", "r", "s", "t", "u", "v", "w", "x", "y", "z"}
    \cup {"0", "1", "2", "3", "4", "5", "6", "7", "8", "9"}
    \cup {"_"}

\* isspace()
IsSpace(c) == c \in {" ", "\t", "\n", "\r", "\f"}

\* the reject set of strcspn in parse_enclosed_word
WordEnd == {" ", "\t", "\r", "\n", ";"}

Quotes == {"\"", "'"}

\* contents /etc/os-release may have when it can be opened
OsReleaseContents ==
    { <<>>,
      <<"I", "D", "=", "a", "l", "p", "i", "n", "e", "\n", "V", "E", "R", "S", "I", "O", "N", "_", "I", "D", "=", "3", ".", "1", "8", "\n">>,
      <<"N", "A", "M", "E", "=", "\"", "A", "l", "p", "i", "n", "e", " ", "L", "i", "n", "u", "x", "\"", "\n", "I", "D", "=", "\"", "a", "l", "p", "i", "n", "e", "\"", "\n", "V", "E", "R", "S", "I", "O", "N", "_", "I", "D", "=", "'", "3", ".", "1", "8", ".", "4", "'", " ", "\n">>,
      <<"#", " ", "c", "o", "m", "m", "e", "n", "t", "\n", " ", "I", "D", "=", "e", "d", "g", "e", ";", "\n">>,
      <<"V", "E", "R", "S", "I", "O", "N", "_", "I", "D", "=", "3", "\n">>,
      \* a key without '='
      <<"I", "D", " ", "a", "l", "p", "i", "n", "e", "\n">>,
      \* a second, shorter ID
      <<"I", "D", "=", "a", "l", "p", "i", "n", "e", "\n", "I", "D", "=", "x", "y", "\n">>,
      \* a quote that is never closed
      <<"V", "E", "R", "S", "I", "O", "N", "_", "I", "D", "=", "\"", "3", ".", "1", "8", "\n">>,
      \* values of OsFieldSize - 1 characters, of OsFieldSize and of more
      <<"I", "D", "=">> \o Rep("b", OsFieldSize - 1) \o <<"\n">>,
      <<"V", "E", "R", "S", "I", "O", "N", "_", "I", "D", "=">> \o Rep("9", OsFieldSize) \o <<"\n">>,
      <<"I", "D", "=", "\"">> \o Rep("a", OsFieldSize + 6) \o <<"\"", "\n">> }

\* the file as a cycle finds it: absent (fopen fails) or present with a content
OsReleaseFiles ==
    {[exists |-> FALSE, content |-> <<>>]}
    \cup {[exists |-> TRUE, content |-> c] : c \in OsReleaseContents}

\* fgets(line, sizeof(line), fp): at most LineSize - 1 characters, ending
\* after the first newline
Fgets(content) ==
    LET nl  == IndexOf(content, "\n", 1)
        lim == Min(Len(content), LineSize - 1)
    IN  IF nl # 0 /\ nl <= lim THEN Take(content, nl) ELSE Take(content, lim)

\* first position at or after i that holds no white space
RECURSIVE SkipSpace(_, _)
SkipSpace(line, i) ==
    IF i <= Len(line) /\ IsSpace(line[i]) THEN SkipSpace(line, i + 1) ELSE i

\* number of scanset characters from position i on, at most KeyWidth
RECURSIVE KeyRun(_, _, _)
KeyRun(line, i, k) ==
    IF k < KeyWidth /\ i + k <= Len(line) /\ line[i + k] \in KeyChars
    THEN KeyRun(line, i, k + 1)
    ELSE k

\* sscanf(line, " %15[A-Za-z0-9_]=%n", key, &pos): n is the return value
\* (-1 is EOF), pos stays 0 unless the '=' is matched
Sscanf(line) ==
    LET i == SkipSpace(line, 1)
        k == KeyRun(line, i, 0)
    IN  IF i > Len(line) THEN [n |-> -1, key |-> <<>>, pos |-> 0]
        ELSE IF k = 0 THEN [n |-> 0, key |-> <<>>, pos |-> 0]
        ELSE IF i + k <= Len(line) /\ line[i + k] = "="
             THEN [n |-> 1, key |-> SubSeq(line, i, i + k - 1), pos |-> i + k]
             ELSE [n |-> 1, key |-> SubSeq(line, i, i + k - 1), pos |-> 0]

\* strcspn(str, " \t\r\n;")
RECURSIVE Strcspn(_, _)
Strcspn(str, reject) ==
    IF str = <<>> \/ str[1] \in reject THEN 0
    ELSE 1 + Strcspn(Tail(str), reject)

\* strncpy(dest, src, n) where src holds at least n characters: exactly n
\* bytes are written and no terminator is added
Strncpy(dest, src, n) ==
    [i \in 1..Len(dest) |-> IF i <= n THEN src[i] ELSE dest[i]]

\* parse_enclosed_word(dest, str, max_len): the buffer afterwards and the
\* return value
parse_enclosed_word(dest, str, max_len) ==
    IF str # <<>> /\ str[1] \in Quotes
    THEN LET end == IndexOf(str, str[1], 2)
         IN  IF end = 0
             THEN [dest |-> dest, ret |-> -1]
             ELSE [dest |-> Strncpy(dest, Tail(str), Min(end - 2, max_len)),
                   ret  |-> end - 2]
    ELSE LET len == Strcspn(str, WordEnd)
         IN  [dest |-> Strncpy(dest, str, Min(len, max_len)), ret |-> len]

\* struct os_release os = { "", "" }
EmptyOsRelease ==
    [id |-> Rep(NUL, OsFieldSize), version_id |-> Rep(NUL, OsFieldSize)]

\* the body of the while loop of read_os_release for one line
OsReleaseLine(dest, line) ==
    LET sc   == Sscanf(line)
        rest == Drop(line, sc.pos)
    IN  IF sc.n < 1 THEN dest
        ELSE IF sc.key = <<"I", "D">>
             THEN [dest EXCEPT !.id =
                      parse_enclosed_word(dest.id, rest, OsFieldSize).dest]
        ELSE IF sc.key = <<"V", "E", "R", "S", "I", "O", "N", "_", "I", "D">>
             THEN [dest EXCEPT !.version_id =
                      parse_enclosed_word(dest.version_id, rest, OsFieldSize).dest]
        ELSE dest

\* the while loop of read_os_release over what is left of the file
RECURSIVE OsReleaseLoop(_, _)
OsReleaseLoop(dest, content) ==
    IF content = <<>> THEN dest
    ELSE LET line == Fgets(content)
         IN  OsReleaseLoop(OsReleaseLine(dest, line), Drop(content, Len(line)))

\* read_os_release(dest)
read_os_release(dest, file) ==
    IF ~file.exists THEN [ret |-> -1, os |-> dest]
    ELSE [ret |-> 0, os |-> OsReleaseLoop(dest, file.content)]

\* what may lie behind the struct when a string has no terminator in it
Beyond == {<<>>, <<"?">>}

\* the strings a reader of the char pointer (os.id is offset 0, os.version_id
\* is offset OsFieldSize) can see: the bytes up to the first NUL; without a
\* NUL in the struct the read runs past its end
CStrings(os, offset) ==
    LET mem  == Drop(os.id \o os.version_id, offset)
        term == IndexOf(mem, NUL, 1)
    IN  IF term # 0 THEN {Take(mem, term - 1)}
        ELSE {mem \o b : b \in Beyond}

(***************************************************************************)
(* json-c values.  A string is kept as it is, an object as a record, an    *)
(* array as a sequence; the serialised text is a sequence of tokens.       *)
(***************************************************************************)
\* json_object_to_json_string_ext of one object: the members in the order
\* they were added
JsonObjectString(obj) ==
    <<"{", "p", ":", obj.p, ",", "o", ":", obj.o, ",",
           "v", ":", obj.v, ",", "w", ":", obj.w, "}">>

\* json_object_to_json_string_ext(pkgs, JSON_C_TO_STRING_PLAIN)
RECURSIVE JsonArrayBody(_)
JsonArrayBody(arr) ==
    IF arr = <<>> THEN <<>>
    ELSE IF Len(arr) = 1 THEN JsonObjectString(arr[1])
    ELSE JsonObjectString(arr[1]) \o <<",">> \o JsonArrayBody(Tail(arr))

json_object_to_json_string(arr) == <<"[">> \o JsonArrayBody(arr) \o <<"]">>

\* number of elements of the array a serialised text denotes
JsonArrayLength(text) == CountOf(text, "{")

(***************************************************************************)
(* apk_change_to_json and the test of the loop in apk_upgradable_read.     *)
(***************************************************************************)
\* lines 146-148: the three assertions of apk_change_to_json (a descriptor
\* of the model always has a name)
ChangeAsserts(change) == change.old_pkg # NULL /\ change.new_pkg # NULL

\* the origin read from the new package
apk_change_to_json_NewOrigin(change) ==
    [p |-> pkg_name(change.old_pkg),
     o |-> pkg_origin(change.new_pkg),
     v |-> pkg_version(change.old_pkg),
     w |-> pkg_version(change.new_pkg)]

\* lines 150-165: the object built from a change that passes the assertions
apk_change_to_json(change) ==
    [p |-> pkg_name(change.old_pkg),
     o |-> pkg_origin(change.old_pkg),
     v |-> pkg_version(change.old_pkg),
     w |-> pkg_version(change.new_pkg)]

\* line 197: the condition under which a change is counted
ChangeIsCounted(change) == change.old_pkg # change.new_pkg

\* the increment left out
CountNext_Same(n) == n

\* line 198: count++
CountNext(n) == n + 1

\* line 169: int rc = -1
RcInit == -1

\* line 223: rc = 0
RcSuccess == 0

(***************************************************************************)
(* Outcomes of the external calls.                                         *)
(***************************************************************************)
\* apk_db_open: 0 or a negative error
DbOpenRets == {0, -1}

\* apk_solver_solve: 0 or the number of errors
SolverRets == {0, 1}

\* meta_data_add_string: 0 or a negative errno (-ENOMEM)
MetaAddRets == {0, -12}

\* plugin_dispatch_values: 0 or an error
DispatchRets == {0, -1}

(***************************************************************************)
(* State.                                                                  *)
(***************************************************************************)
VARIABLES
    pc,             \* where the read callback stands
    rc,             \* int rc; at pc = "returned" the value returned
    pkgs,           \* json_object *pkgs: the array being built
    meta,           \* meta_data_t *meta: the entries attached, key and value
    open_complete,  \* db.open_complete
    changeset,      \* changeset.changes as the solver filled it
    idx,            \* position of the loop in changeset.changes
    count,          \* int count
    pkgs_json,      \* const char *pkgs_json
    os,             \* struct os_release os
    fp,             \* FILE *fp of read_os_release: what is left to read
    dispatched,     \* the value lists handed to plugin_dispatch_values
    solver_output,  \* history: the changes apk_solver_solve produced
    os_file,        \* history: /etc/os-release as this cycle found it
    prev,           \* history: what the cycle before this one met and did
    trace           \* the calls made in this cycle, with what they returned

vars == <<pc, rc, pkgs, meta, open_complete, changeset, idx, count,
          pkgs_json, os, fp, dispatched, solver_output, os_file, prev, trace>>

Call(name, arg, ret) == [call |-> name, arg |-> arg, ret |-> ret]

\* meta_data_add_string(md, key, value) that succeeds: the entry of that key
\* is set
MetaAdd(md, key, value) ==
    {e \in md : e.key # key} \cup {[key |-> key, value |-> value]}

\* no cycle has run yet
NoCycle ==
    [set |-> FALSE, trace |-> <<>>, solver_output |-> <<>>,
     os_file |-> [exists |-> FALSE, content |-> <<>>],
     rc |-> RcInit, dispatched |-> <<>>]

\* module_register has registered the callback; it has not run yet
Init ==
    /\ pc = "idle"
    /\ rc = RcInit
    /\ pkgs = <<>>
    /\ meta = {}
    /\ open_complete = FALSE
    /\ changeset = <<>>
    /\ idx = 1
    /\ count = 0
    /\ pkgs_json = <<>>
    /\ os = EmptyOsRelease
    /\ fp = <<>>
    /\ dispatched = <<>>
    /\ solver_output = <<>>
    /\ os_file = [exists |-> FALSE, content |-> <<>>]
    /\ prev = NoCycle
    /\ trace = <<>>

(***************************************************************************)
(* apk_upgradable_read, one action per step.                               *)
(***************************************************************************)
\* lines 168-179: collectd invokes the callback; the locals are set up and
\* apk_db_init clears the database handle
StartCycleSteps ==
    /\ pc \in {"idle", "returned"}
    /\ pc' = "db_open"
    /\ rc' = RcInit
    /\ pkgs' = <<>>
    /\ meta' = {}
    /\ open_complete' = FALSE
    /\ changeset' = <<>>
    /\ idx' = 1
    /\ count' = 0
    /\ pkgs_json' = <<>>
    /\ os' = EmptyOsRelease
    /\ fp' = <<>>
    /\ dispatched' = <<>>
    /\ solver_output' = <<>>
    /\ os_file' = [exists |-> FALSE, content |-> <<>>]
    /\ trace' = <<>>

\* collectd invokes the callback
StartCycle == StartCycleSteps /\ UNCHANGED prev

\* only a positive result taken for a failure
DbOpenFailed_PositiveOnly(r) == r > 0

\* line 182: the test of apk_db_open's result
DbOpenFailed(r) == r # 0

\* lines 181-185: apk_db_open; libapk sets open_complete when the open has
\* succeeded, and only then
DbOpen ==
    /\ pc = "db_open"
    /\ \E r \in DbOpenRets :
          /\ open_complete' = (r = 0)
          /\ IF DbOpenFailed(r)
             THEN /\ trace' = trace \o <<Call("apk_db_open", "", r),
                                          Call("log_err", "failed to open apk database", 0)>>
                  /\ pc' = "done"
             ELSE /\ trace' = Append(trace, Call("apk_db_open", "", r))
                  /\ pc' = "solve"
    /\ UNCHANGED <<prev, os_file, fp, solver_output, rc, pkgs, meta, changeset, idx, count,
                   pkgs_json, os, dispatched>>

\* only a negative result taken for a failure
SolverFailed_NegativeOnly(r) == r < 0

\* line 188: the test of apk_solver_solve's result
SolverFailed(r) == r # 0

\* lines 187-193: apk_solver_solve, which fills changeset.changes whether or
\* not it reports errors, and int count = 0
SolverSolve ==
    /\ pc = "solve"
    /\ \E r \in SolverRets :
          /\ changeset' \in Changesets
          /\ solver_output' = changeset'
          /\ IF SolverFailed(r)
             THEN /\ trace' = trace \o <<Call("apk_solver_solve", "", r),
                                          Call("log_err", "apk solver returned errors", 0)>>
                  /\ pc' = "done"
             ELSE /\ trace' = Append(trace, Call("apk_solver_solve", "", r))
                  /\ pc' = "foreach"
    /\ count' = 0
    /\ idx' = 1
    /\ UNCHANGED <<prev, os_file, fp, rc, pkgs, meta, open_complete, pkgs_json, os, dispatched>>

\* lines 196-201: one turn of the loop for a change that is not counted, or
\* that is counted and passes the assertions of apk_change_to_json
ForeachChange ==
    /\ pc = "foreach"
    /\ idx <= Len(changeset)
    /\ LET change == changeset[idx]
       IN  /\ ChangeIsCounted(change) => ChangeAsserts(change)
           /\ IF ChangeIsCounted(change)
              THEN /\ count' = CountNext(count)
                   /\ pkgs' = Append(pkgs, apk_change_to_json(change))
              ELSE UNCHANGED <<count, pkgs>>
    /\ idx' = idx + 1
    /\ UNCHANGED <<prev, os_file, fp, solver_output, pc, rc, meta, open_complete, changeset, pkgs_json, os,
                   dispatched, trace>>

\* lines 197-199 with 146-153: a counted change with a null side.  count is
\* incremented, then apk_change_to_json fails its assertion and the process
\* aborts; built with NDEBUG it reads through the null pointer instead.
ForeachChangeDies ==
    /\ pc = "foreach"
    /\ idx <= Len(changeset)
    /\ ChangeIsCounted(changeset[idx])
    /\ ~ChangeAsserts(changeset[idx])
    /\ count' = CountNext(count)
    /\ pc' \in {"aborted", "crashed"}
    /\ UNCHANGED <<prev, os_file, fp, solver_output, rc, pkgs, meta, open_complete, changeset, idx, pkgs_json,
                   os, dispatched, trace>>

\* line 202: apk_change_array_free(&changeset.changes)
ForeachEnd ==
    /\ pc = "foreach"
    /\ idx > Len(changeset)
    /\ changeset' = <<>>
    /\ trace' = Append(trace, Call("apk_change_array_free", "", 0))
    /\ pc' = "meta_packages"
    /\ UNCHANGED <<prev, os_file, fp, solver_output, rc, pkgs, meta, open_complete, idx, count, pkgs_json, os,
                   dispatched>>

\* lines 205-209: serialise pkgs and attach it as "packages"
MetaPackages ==
    /\ pc = "meta_packages"
    /\ pkgs_json' = json_object_to_json_string(pkgs)
    /\ \E r \in MetaAddRets :
          IF r < 0
          THEN /\ trace' = trace \o <<Call("meta_data_add_string", "packages", r),
                                       Call("log_err", "unable to set value metadata", 0)>>
               /\ meta' = meta
               /\ pc' = "done"
          ELSE /\ trace' = Append(trace, Call("meta_data_add_string", "packages", r))
               /\ meta' = MetaAdd(meta, "packages", pkgs_json')
               /\ pc' = "os_release"
    /\ UNCHANGED <<prev, os_file, fp, solver_output, rc, pkgs, open_complete, changeset, idx, count, os, dispatched>>

\* lines 211-214 with 99-103: struct os_release os = { "", "" } and the
\* fopen of read_os_release, which returns -1 when the file cannot be opened
ReadOsRelease ==
    /\ pc = "os_release"
    /\ os' = EmptyOsRelease
    /\ \E file \in OsReleaseFiles :
          /\ os_file' = file
          /\ IF read_os_release(EmptyOsRelease, file).ret < 0
             THEN /\ trace' = trace \o <<Call("fopen", "/etc/os-release", -1),
                                          Call("log_warn", "failed to read /etc/os-release", 0)>>
                  /\ fp' = <<>>
                  /\ pc' = "meta_os_id"
             ELSE /\ trace' = Append(trace, Call("fopen", "/etc/os-release", 0))
                  /\ fp' = file.content
                  /\ pc' = "os_release_line"
    /\ UNCHANGED <<prev, solver_output, rc, pkgs, meta, open_complete, changeset, idx, count,
                   pkgs_json, dispatched>>

\* lines 106-122: fgets has read a line; one turn of the while loop
OsReleaseReadLine ==
    /\ pc = "os_release_line"
    /\ fp # <<>>
    /\ os' = OsReleaseLine(os, Fgets(fp))
    /\ fp' = Drop(fp, Len(Fgets(fp)))
    /\ UNCHANGED <<prev, os_file, solver_output, pc, rc, pkgs, meta, open_complete, changeset, idx,
                   count, pkgs_json, dispatched, trace>>

\* lines 106 and 123-125: fgets finds the end of the file; fclose, return 0
OsReleaseEof ==
    /\ pc = "os_release_line"
    /\ fp = <<>>
    /\ trace' = Append(trace, Call("fclose", "/etc/os-release", 0))
    /\ pc' = "meta_os_id"
    /\ UNCHANGED <<prev, os_file, solver_output, rc, pkgs, meta, open_complete, changeset, idx,
                   count, pkgs_json, os, fp, dispatched>>

\* line 215: meta_data_add_string(meta, "os-id", os.id), result not looked at
MetaOsId ==
    /\ pc = "meta_os_id"
    /\ \E r \in MetaAddRets, value \in CStrings(os, 0) :
          /\ trace' = Append(trace, Call("meta_data_add_string", "os-id", r))
          /\ meta' = IF r < 0 THEN meta ELSE MetaAdd(meta, "os-id", value)
    /\ pc' = "meta_os_version"
    /\ UNCHANGED <<prev, os_file, fp, solver_output, rc, pkgs, open_complete, changeset, idx, count, pkgs_json,
                   os, dispatched>>

\* line 216: meta_data_add_string(meta, "os-version", os.version_id), result
\* not looked at
MetaOsVersion ==
    /\ pc = "meta_os_version"
    /\ \E r \in MetaAddRets, value \in CStrings(os, OsFieldSize) :
          /\ trace' = Append(trace, Call("meta_data_add_string", "os-version", r))
          /\ meta' = IF r < 0 THEN meta ELSE MetaAdd(meta, "os-version", value)
    /\ pc' = "log_metadata"
    /\ UNCHANGED <<prev, os_file, fp, solver_output, rc, pkgs, open_complete, changeset, idx, count, pkgs_json,
                   os, dispatched>>

\* lines 218-219: log_info of the payload
LogMetadata ==
    /\ pc = "log_metadata"
    /\ trace' = Append(trace, Call("log_info", "metadata", 0))
    /\ pc' = "dispatch"
    /\ UNCHANGED <<prev, os_file, fp, solver_output, rc, pkgs, meta, open_complete, changeset, idx, count,
                   pkgs_json, os, dispatched>>

\* lines 128-140: the value list dispatch_gauge builds
dispatch_gauge(plugin_instance, type, value, md) ==
    [plugin |-> "apk", plugin_instance |-> plugin_instance, type |-> type,
     values |-> <<value>>, meta |-> md]

\* lines 221-223: dispatch_gauge("upgradable", "count", count, meta), result
\* not looked at, then rc = 0
Dispatch ==
    /\ pc = "dispatch"
    /\ \E r \in DispatchRets :
          trace' = Append(trace, Call("plugin_dispatch_values", "", r))
    /\ dispatched' = Append(dispatched,
                            dispatch_gauge("upgradable", "count", count, meta))
    /\ rc' = RcSuccess
    /\ pc' = "done"
    /\ UNCHANGED <<prev, os_file, fp, solver_output, pkgs, meta, open_complete, changeset, idx, count, pkgs_json, os>>

\* apk_db_close called whatever became of the open
DbIsOpen_Always == TRUE

\* line 225: the test guarding apk_db_close
DbIsOpen == open_complete

\* lines 224-231: done: close the database if it is open, release meta and
\* pkgs, return rc
Done ==
    /\ pc = "done"
    /\ trace' =
          (IF DbIsOpen THEN Append(trace, Call("apk_db_close", "", 0)) ELSE trace)
          \o <<Call("meta_data_destroy", "", 0), Call("json_object_put", "", 0)>>
    /\ pc' = "returned"
    /\ UNCHANGED <<prev, os_file, fp, solver_output, rc, pkgs, meta, open_complete, changeset, idx, count,
                   pkgs_json, os, dispatched>>

Next ==
    \/ StartCycle
    \/ DbOpen
    \/ SolverSolve
    \/ ForeachChange
    \/ ForeachChangeDies
    \/ ForeachEnd
    \/ MetaPackages
    \/ ReadOsRelease
    \/ OsReleaseReadLine
    \/ OsReleaseEof
    \/ MetaOsId
    \/ MetaOsVersion
    \/ LogMetadata
    \/ Dispatch
    \/ Done

Spec == Init /\ [][Next]_vars

(***************************************************************************)
(* What a cycle did, read off its trace.                                   *)
(***************************************************************************)
\* number of calls of that name made so far in this cycle
NumCalls(name) == Cardinality({i \in DOMAIN trace : trace[i].call = name})

\* a log call of that severity with that message was made
Logged(sev, msg) ==
    \E i \in DOMAIN trace : trace[i].call = sev /\ trace[i].arg = msg

\* apk_db_open was called and reported success / an error
OpenSucceeded ==
    \E i \in DOMAIN trace : trace[i].call = "apk_db_open" /\ trace[i].ret = 0

OpenFailed ==
    \E i \in DOMAIN trace : trace[i].call = "apk_db_open" /\ trace[i].ret # 0

\* apk_solver_solve was called and reported errors
SolveFailed ==
    \E i \in DOMAIN trace : trace[i].call = "apk_solver_solve" /\ trace[i].ret # 0

\* meta_data_add_string for that key was called and reported an error
MetaAddFailed(key) ==
    \E i \in DOMAIN trace :
        /\ trace[i].call = "meta_data_add_string"
        /\ trace[i].arg = key
        /\ trace[i].ret < 0

\* fopen of /etc/os-release was called and failed
OsReleaseOpenFailed ==
    \E i \in DOMAIN trace : trace[i].call = "fopen" /\ trace[i].ret < 0

MetaKeys == {"packages", "os-id", "os-version"}

\* the keys a metadata set holds, and the value it holds for a key
KeysOf(md) == {e.key : e \in md}

ValueOf(md, key) == (CHOOSE e \in md : e.key = key).value

\* the callback has returned to collectd
Returned == pc = "returned"

\* the process is gone
Dead == pc \in {"aborted", "crashed"}

\* a side of the change is a null pointer
SideAbsent(change) == change.old_pkg = NULL \/ change.new_pkg = NULL

\* the loop stands before a change of changeset.changes
AtChange == pc = "foreach" /\ idx <= Len(changeset)

(***************************************************************************)
(* C1.  In every cycle the database is closed exactly once if and only if  *)
(* apk_db_open succeeded, whichever way the callback returns (success,     *)
(* solver failure, metadata failure); it is never closed after a failed    *)
(* open and never closed twice.                                            *)
(***************************************************************************)
C1_ClosedOnceIffOpened ==
    /\ NumCalls("apk_db_close") <= 1
    /\ NumCalls("apk_db_close") = 1 => OpenSucceeded
    /\ Returned => (OpenSucceeded <=> NumCalls("apk_db_close") = 1)

\* a cycle that opened the database, failed to attach "packages" and returned
C1_Witness ==
    /\ Returned
    /\ OpenSucceeded
    /\ MetaAddFailed("packages")
    /\ NumCalls("apk_db_close") = 1

(***************************************************************************)
(* C2.  A change with an absent old or new side is not an upgrade: the     *)
(* step that handles it leaves count and pkgs as they are and the loop     *)
(* carries on.                                                             *)
(***************************************************************************)
C2_AbsentSideSkipped ==
    [][(AtChange /\ SideAbsent(changeset[idx]))
          => (count' = count /\ pkgs' = pkgs /\ pc' = "foreach")]_vars

(***************************************************************************)
(* C3.  A change with both sides present and equal versions is neither     *)
(* counted nor recorded, also when the two sides are different             *)
(* descriptors.                                                            *)
(***************************************************************************)
C3_SameVersionSkipped ==
    [][(/\ AtChange
        /\ ~SideAbsent(changeset[idx])
        /\ pkg_version(changeset[idx].old_pkg) = pkg_version(changeset[idx].new_pkg))
          => (count' = count /\ pkgs' = pkgs)]_vars

(***************************************************************************)
(* C4.  A cycle whose open succeeded and whose solver failed logs an       *)
(* error, dispatches nothing, closes the database and returns non-zero.    *)
(***************************************************************************)
C4_SolverFailure ==
    (Returned /\ OpenSucceeded /\ SolveFailed) =>
        /\ Logged("log_err", "apk solver returned errors")
        /\ dispatched = <<>>
        /\ NumCalls("plugin_dispatch_values") = 0
        /\ NumCalls("apk_db_close") = 1
        /\ rc # 0

\* a returned cycle whose solver reported errors on a non-empty changeset
C4_Witness ==
    /\ Returned
    /\ OpenSucceeded
    /\ SolveFailed
    /\ solver_output # <<>>

(***************************************************************************)
(* C5.  When attaching any of packages, os-id, os-version fails, the cycle *)
(* fails: an error is logged, nothing is dispatched, the database is       *)
(* closed and the callback returns non-zero.                               *)
(***************************************************************************)
C5_MetaFailureFatal ==
    (Returned /\ \E key \in MetaKeys : MetaAddFailed(key)) =>
        /\ Logged("log_err", "unable to set value metadata")
        /\ dispatched = <<>>
        /\ NumCalls("apk_db_close") = 1
        /\ rc # 0

(***************************************************************************)
(* C6.  A cycle whose open failed logs an error, never calls the solver,   *)
(* dispatches nothing, does not call apk_db_close and returns non-zero.    *)
(***************************************************************************)
C6_OpenFailure ==
    (Returned /\ OpenFailed) =>
        /\ Logged("log_err", "failed to open apk database")
        /\ NumCalls("apk_solver_solve") = 0
        /\ dispatched = <<>>
        /\ NumCalls("plugin_dispatch_values") = 0
        /\ NumCalls("apk_db_close") = 0
        /\ rc # 0

\* a cycle returned after a failed open
C6_Witness ==
    /\ Returned
    /\ OpenFailed
    /\ ~open_complete

(***************************************************************************)
(* C7.  A cycle returns 0 exactly when it dispatched one measurement; a    *)
(* cycle in which the open, the solver or a metadata attachment failed     *)
(* returns non-zero and dispatches nothing; no cycle dispatches twice.     *)
(***************************************************************************)
C7_ReturnCode ==
    /\ Len(dispatched) <= 1
    /\ Returned => (rc = 0 <=> Len(dispatched) = 1)
    /\ (Returned /\ (\/ OpenFailed
                     \/ SolveFailed
                     \/ \E key \in MetaKeys : MetaAddFailed(key)))
          => (rc # 0 /\ dispatched = <<>>)

(***************************************************************************)
(* C8.  A change with both sides present and differing versions appends    *)
(* exactly one record: p, o and v from the old package, w the version of   *)
(* the new one.                                                            *)
(***************************************************************************)
C8_UpgradeRecord ==
    [][(/\ AtChange
        /\ ~SideAbsent(changeset[idx])
        /\ pkg_version(changeset[idx].old_pkg) # pkg_version(changeset[idx].new_pkg))
          => pkgs' = Append(pkgs, [p |-> pkg_name(changeset[idx].old_pkg),
                                   o |-> pkg_origin(changeset[idx].old_pkg),
                                   v |-> pkg_version(changeset[idx].old_pkg),
                                   w |-> pkg_version(changeset[idx].new_pkg)])]_vars

\* the loop has just handled a change whose sides differ in name, origin
\* and version, and its record is the last of pkgs
C8_Witness ==
    /\ pc = "foreach"
    /\ idx > 1
    /\ solver_output[idx - 1] = [old_pkg |-> "pkg1", new_pkg |-> "pkg3"]
    /\ pkgs # <<>>
    /\ pkgs[Len(pkgs)].w = "8.1.0-r0"

(***************************************************************************)
(* C9.  Between the turns of the loop and from then on count is the number *)
(* of records in pkgs, and a dispatched gauge value is the length of the   *)
(* array attached as "packages".                                           *)
(***************************************************************************)
C9_CountIsLength ==
    /\ ~Dead => count = Len(pkgs)
    /\ \A i \in DOMAIN dispatched :
          /\ "packages" \in KeysOf(dispatched[i].meta)
          /\ dispatched[i].values[1] =
                JsonArrayLength(ValueOf(dispatched[i].meta, "packages"))

\* a cycle that dispatched the value 2 with two records attached
C9_Witness ==
    /\ Returned
    /\ Len(dispatched) = 1
    /\ dispatched[1].values[1] = 2
    /\ Len(pkgs) = 2

(***************************************************************************)
(* C10.  When /etc/os-release cannot be opened the cycle logs a warning,   *)
(* uses empty strings for os-id and os-version, dispatches its measurement *)
(* with all three metadata fields present and returns 0.                   *)
(***************************************************************************)
C10_OsReleaseMissing ==
    (Returned /\ OsReleaseOpenFailed) =>
        /\ Logged("log_warn", "failed to read /etc/os-release")
        /\ Len(dispatched) = 1
        /\ KeysOf(dispatched[1].meta) = MetaKeys
        /\ ValueOf(dispatched[1].meta, "os-id") = <<>>
        /\ ValueOf(dispatched[1].meta, "os-version") = <<>>
        /\ rc = 0

(***************************************************************************)
(* More to read off a cycle.                                               *)
(***************************************************************************)
\* apk_solver_solve was called and reported no error
SolveSucceeded ==
    \E i \in DOMAIN trace : trace[i].call = "apk_solver_solve" /\ trace[i].ret = 0

\* plugin_dispatch_values was called and reported an error
DispatchFailed ==
    \E i \in DOMAIN trace :
        trace[i].call = "plugin_dispatch_values" /\ trace[i].ret # 0

\* position in the trace of the first call of that name, 0 when there is none
FirstCall(name) ==
    IF NumCalls(name) = 0 THEN 0
    ELSE CHOOSE i \in DOMAIN trace :
            /\ trace[i].call = name
            /\ \A j \in 1..(i - 1) : trace[j].call # name

\* a real upgrade in the words of the specification: both sides present and
\* the versions differ
RealUpgrade(change) ==
    /\ ~SideAbsent(change)
    /\ pkg_version(change.old_pkg) # pkg_version(change.new_pkg)

\* the record the specification gives for a real upgrade
UpgradeRecord(change) ==
    [p |-> pkg_name(change.old_pkg),
     o |-> pkg_origin(change.old_pkg),
     v |-> pkg_version(change.old_pkg),
     w |-> pkg_version(change.new_pkg)]

\* the records of the real upgrades of a changeset, in its order
RECURSIVE UpgradeRecords(_)
UpgradeRecords(changes) ==
    IF changes = <<>> THEN <<>>
    ELSE (IF RealUpgrade(changes[1]) THEN <<UpgradeRecord(changes[1])>> ELSE <<>>)
         \o UpgradeRecords(Tail(changes))

(***************************************************************************)
(* C11.  Once the solver has been called, whether it succeeded or failed,  *)
(* the array of changes is released exactly once before the callback       *)
(* returns.                                                                *)
(***************************************************************************)
C11_ChangesReleasedOnce ==
    /\ NumCalls("apk_change_array_free") <= 1
    /\ (Returned /\ NumCalls("apk_solver_solve") = 1)
          => NumCalls("apk_change_array_free") = 1

(***************************************************************************)
(* C12.  The packages array a cycle emits holds exactly the records of the *)
(* real upgrades of the changeset, in the order the solver produced them.  *)
(***************************************************************************)
C12_OrderedRealUpgrades ==
    \A i \in DOMAIN dispatched :
        /\ "packages" \in KeysOf(dispatched[i].meta)
        /\ ValueOf(dispatched[i].meta, "packages") =
              json_object_to_json_string(UpgradeRecords(solver_output))

(***************************************************************************)
(* C13.  When the solver succeeds with a changeset that is empty or holds  *)
(* no real upgrade, the cycle succeeds: it dispatches one measurement with *)
(* value 0 and an empty packages array, closes the database and returns 0. *)
(***************************************************************************)
C13_NothingToUpgrade ==
    (SolveSucceeded /\ UpgradeRecords(solver_output) = <<>>) =>
        /\ ~Dead
        /\ Returned =>
              /\ rc = 0
              /\ Len(dispatched) = 1
              /\ dispatched[1].values[1] = 0
              /\ "packages" \in KeysOf(dispatched[1].meta)
              /\ ValueOf(dispatched[1].meta, "packages") = <<"[", "]">>
              /\ NumCalls("apk_db_close") = 1

(***************************************************************************)
(* C16.  A successful cycle opens the database, calls the solver, logs the *)
(* payload at info level, dispatches and closes, in this order; nothing is *)
(* dispatched before the solver has succeeded and all three metadata       *)
(* fields are attached, and the database is not closed before the          *)
(* dispatch.                                                               *)
(***************************************************************************)
C16_EventOrder ==
    /\ (Returned /\ rc = 0) =>
          /\ 0 < FirstCall("apk_db_open")
          /\ FirstCall("apk_db_open") < FirstCall("apk_solver_solve")
          /\ FirstCall("apk_solver_solve") < FirstCall("log_info")
          /\ FirstCall("log_info") < FirstCall("plugin_dispatch_values")
          /\ FirstCall("plugin_dispatch_values") < FirstCall("apk_db_close")
    /\ \A i \in DOMAIN trace :
          trace[i].call = "plugin_dispatch_values" =>
              /\ \E j \in 1..(i - 1) :
                    trace[j].call = "apk_solver_solve" /\ trace[j].ret = 0
              /\ \A j \in 1..(i - 1) : trace[j].call # "apk_db_close"
    /\ \A i \in DOMAIN dispatched : KeysOf(dispatched[i].meta) = MetaKeys

(***************************************************************************)
(* C17.  When plugin_dispatch_values reports a failure the cycle fails:    *)
(* the database is closed exactly once and the callback returns non-zero.  *)
(***************************************************************************)
C17_DispatchFailure ==
    (Returned /\ DispatchFailed) =>
        /\ NumCalls("apk_db_close") = 1
        /\ rc # 0

(***************************************************************************)
(* Lines of /etc/os-release in the words of the specification.             *)
(***************************************************************************)
KeyId == <<"I", "D">>

KeyVersionId == <<"V", "E", "R", "S", "I", "O", "N", "_", "I", "D">>

\* the line is optional white space, 1 to KeyWidth key characters and '='
LineHasKey(line) ==
    LET i == SkipSpace(line, 1)
        k == KeyRun(line, i, 0)
    IN  k >= 1 /\ i + k <= Len(line) /\ line[i + k] = "="

\* the key of such a line and what follows its '='
LineKey(line) ==
    LET i == SkipSpace(line, 1)
    IN  SubSeq(line, i, i + KeyRun(line, i, 0) - 1)

LineValue(line) ==
    LET i == SkipSpace(line, 1)
    IN  Drop(line, i + KeyRun(line, i, 0))

\* the value is a word: not one that opens a quote and never closes it
HasWord(str) ==
    (str # <<>> /\ str[1] \in Quotes) => IndexOf(str, str[1], 2) # 0

\* the word of a value: what the quotes enclose, or what precedes the first
\* white space or ';'
WordOf(str) ==
    IF str # <<>> /\ str[1] \in Quotes
    THEN SubSeq(str, 2, IndexOf(str, str[1], 2) - 1)
    ELSE Take(str, Strcspn(str, WordEnd))

\* the line is a successfully parsed line of that key
ParsedLine(line, key) ==
    LineHasKey(line) /\ LineKey(line) = key /\ HasWord(LineValue(line))

\* the words of the successfully parsed lines of that key, in file order
RECURSIVE ParsedWords(_, _)
ParsedWords(content, key) ==
    IF content = <<>> THEN <<>>
    ELSE LET line == Fgets(content)
         IN  (IF ParsedLine(line, key) THEN <<WordOf(LineValue(line))>> ELSE <<>>)
             \o ParsedWords(Drop(content, Len(line)), key)

\* the buffer holds a terminator; the string it holds
FieldTerminated(buf) == IndexOf(buf, NUL, 1) # 0

FieldString(buf) ==
    IF FieldTerminated(buf) THEN Take(buf, IndexOf(buf, NUL, 1) - 1) ELSE buf

IsPrefix(a, b) == Len(a) <= Len(b) /\ a = Take(b, Len(a))

\* read_os_release stands before a line it has read
AtLine == pc = "os_release_line" /\ fp # <<>>

\* read_os_release has read the whole file
OsReleaseRead == pc = "meta_os_id" /\ os_file.exists

C18_FieldTerminated ==
    [][/\ (AtLine /\ ParsedLine(Fgets(fp), KeyId)) =>
              /\ FieldTerminated(os'.id)
              /\ Len(FieldString(os'.id)) <= OsFieldSize - 1
              /\ IsPrefix(FieldString(os'.id), WordOf(LineValue(Fgets(fp))))
       /\ (AtLine /\ ParsedLine(Fgets(fp), KeyVersionId)) =>
              /\ FieldTerminated(os'.version_id)
              /\ Len(FieldString(os'.version_id)) <= OsFieldSize - 1
              /\ IsPrefix(FieldString(os'.version_id), WordOf(LineValue(Fgets(fp))))
      ]_vars

(***************************************************************************)
(* C19.  When the file holds several successfully parsed lines of ID (of   *)
(* VERSION_ID), the field read from it is the word of the last of them     *)
(* alone.                                                                  *)
(***************************************************************************)
C19_LastValueAlone ==
    OsReleaseRead =>
        /\ Len(ParsedWords(os_file.content, KeyId)) >= 2 =>
              FieldString(os.id) =
                 ParsedWords(os_file.content, KeyId)
                    [Len(ParsedWords(os_file.content, KeyId))]
        /\ Len(ParsedWords(os_file.content, KeyVersionId)) >= 2 =>
              FieldString(os.version_id) =
                 ParsedWords(os_file.content, KeyVersionId)
                    [Len(ParsedWords(os_file.content, KeyVersionId))]

(***************************************************************************)
(* Cycles in succession over unchanged inputs: collectd calls the callback *)
(* again and again, and every call out of the plugin gives in a cycle the  *)
(* answer it gave in the cycle before.                                     *)
(***************************************************************************)
\* collectd invokes the callback again; what the cycle that has returned met
\* and did is remembered
StartCycleRemembered ==
    /\ StartCycleSteps
    /\ prev' = IF pc = "returned"
                  THEN [set |-> TRUE, trace |-> trace, solver_output |-> solver_output,
                        os_file |-> os_file, rc |-> rc, dispatched |-> dispatched]
                  ELSE prev

\* so far this cycle has met what the cycle before it met: the same results
\* of the same calls, the same changeset, the same /etc/os-release
InputsRepeat ==
    prev.set =>
        /\ \A i \in DOMAIN trace \cap DOMAIN prev.trace :
              (trace[i].call = prev.trace[i].call /\ trace[i].arg = prev.trace[i].arg)
                 => trace[i].ret = prev.trace[i].ret
        /\ NumCalls("apk_solver_solve") = 1 => solver_output = prev.solver_output
        /\ NumCalls("fopen") = 1 => os_file = prev.os_file

NextRepeat ==
    \/ StartCycleRemembered
    \/ DbOpen /\ InputsRepeat'
    \/ SolverSolve /\ InputsRepeat'
    \/ ForeachChange /\ InputsRepeat'
    \/ ForeachChangeDies /\ InputsRepeat'
    \/ ForeachEnd /\ InputsRepeat'
    \/ MetaPackages /\ InputsRepeat'
    \/ ReadOsRelease /\ InputsRepeat'
    \/ OsReleaseReadLine /\ InputsRepeat'
    \/ OsReleaseEof /\ InputsRepeat'
    \/ MetaOsId /\ InputsRepeat'
    \/ MetaOsVersion /\ InputsRepeat'
    \/ LogMetadata /\ InputsRepeat'
    \/ Dispatch /\ InputsRepeat'
    \/ Done /\ InputsRepeat'

SpecRepeat == Init /\ [][NextRepeat]_vars

\* the cycle before this one returned, and this one has met the same inputs
\* and returned
Repeated == Returned /\ prev.set /\ InputsRepeat

(***************************************************************************)
(* C15.  Cycles are independent: every cycle starts from the state the     *)
(* first cycle started from, whatever the cycle before it did, and a cycle *)
(* that meets the inputs of the cycle before it returns the same code and  *)
(* emits the same payload (count, packages, OS fields).                    *)
(***************************************************************************)
C15_CyclesIndependent ==
    /\ pc = "db_open" =>
          /\ rc = RcInit
          /\ pkgs = <<>>
          /\ meta = {}
          /\ ~open_complete
          /\ changeset = <<>>
          /\ count = 0
          /\ os = EmptyOsRelease
          /\ dispatched = <<>>
          /\ trace = <<>>
    /\ Repeated =>
          /\ rc = prev.rc
          /\ dispatched = prev.dispatched

=============================================================================
